---- MODULE Spec2Model ----
(***************************************************************************)
(* A model of the annotation tool in src/app.py: the labels.jsonl decision *)
(* log, the replay of it at session start (load_labels), the commit of a   *)
(* label (save_label), the cursor (current_index, prev_item, next_item,    *)
(* the deferred advance) and the script's rendering branches.              *)
(*                                                                         *)
(* The log is modelled as the text it is: a sequence of tokens, where a    *)
(* token is one complete JSON object as json.dumps writes it, a run of     *)
(* whitespace, a piece of text that is not a complete JSON object (such as *)
(* the prefix a failed write leaves), or a newline.  Reading splits the    *)
(* text at newlines and parses each line, as the code does.                *)
(***************************************************************************)
EXTENDS Integers, Sequences, FiniteSets, TLC

\* ------------------------------------------------------------------ bounds
\* The largest dataset (number of conversations) considered.
MaxItems == 2
\* The longest log text, in tokens, present before the first session starts.
MaxInitTokens == 2
\* The longest log text, in tokens, a label click may still start from.
MaxFileLen == 8
\* The most pieces of damaged text (left by failed writes) a log may hold
\* when one more write may still fail part-way.
MaxDamage == 1

\* ---------------------------------------------------------------- the data
\* The two label values the buttons write (app.py lines 62 and 70).
LabelValues == {"artifact", "not_artifact"}

\* conversations.json: an ordered list of n conversations with unique ids.
QueryId(i) == 10 + i
Dataset(n) == [i \in 1..n |-> [query_id |-> QueryId(i)]]

\* A query_id that no conversation of any dataset carries.
ForeignId == QueryId(MaxItems + 1)

\* ------------------------------------------------------- the text of the log
Json(id, l) == [kind |-> "json", query_id |-> id, label |-> l]
NL == [kind |-> "nl", query_id |-> 0, label |-> ""]
WS == [kind |-> "ws", query_id |-> 0, label |-> ""]
Torn == [kind |-> "torn", query_id |-> 0, label |-> ""]

\* The tokens a log may hold before the first session starts.
InitTokens ==
    {Json(QueryId(1), l) : l \in LabelValues}
        \cup {Json(ForeignId, "artifact"), NL, WS, Torn}

RECURSIVE TextsUpTo(_)
TextsUpTo(n) ==
    IF n = 0 THEN {<<>>}
    ELSE LET shorter == TextsUpTo(n - 1)
         IN  shorter \cup {Append(t, k) : t \in shorter, k \in InitTokens}

InitFiles == TextsUpTo(MaxInitTokens)

\* ------------------------------------------------------------ reading a log
\* `for line in f`: the text cut after each newline; a last piece without a
\* newline is a line too, an empty last piece is not.
RECURSIVE SplitLines(_, _)
SplitLines(text, cur) ==
    IF text = <<>> THEN (IF cur = <<>> THEN <<>> ELSE <<cur>>)
    ELSE IF Head(text).kind = "nl"
         THEN <<cur>> \o SplitLines(Tail(text), <<>>)
         ELSE SplitLines(Tail(text), Append(cur, Head(text)))

\* line.strip(), and the whitespace json.loads ignores around a value.
Strip(line) == SelectSeq(line, LAMBDA t : t.kind # "ws")

\* json.loads(line) followed by item["query_id"], item["label"]: succeeds on
\* exactly one JSON object that carries both keys.
WellFormed(line) == Len(Strip(line)) = 1 /\ Strip(line)[1].kind = "json"

\* labels[k] = v on a dict.
Put(d, k, v) == [x \in DOMAIN d \cup {k} |-> IF x = k THEN v ELSE d[x]]

EmptyDict == <<>>

\* load_labels whose loop keeps the first label it reads for an id.
FoldItemKeepFirst(labels, item) ==
    IF item.query_id \in DOMAIN labels THEN labels
    ELSE Put(labels, item.query_id, item.label)

\* The loop body of load_labels for one parsed item.
FoldItem(labels, item) == Put(labels, item.query_id, item.label)

RECURSIVE FoldLines(_, _)
FoldLines(lines, labels) ==
    IF lines = <<>> THEN [ok |-> TRUE, labels |-> labels]
    ELSE LET line == Head(lines)
         IN  IF Strip(line) = <<>> THEN FoldLines(Tail(lines), labels)
             ELSE IF ~WellFormed(line) THEN [ok |-> FALSE, labels |-> labels]
             ELSE FoldLines(Tail(lines), FoldItem(labels, Strip(line)[1]))

\* load_labels(): ok is FALSE when json.loads raises.
load_labels(text) == FoldLines(SplitLines(text, <<>>), EmptyDict)

\* ------------------------------------------------------------------- state
VARIABLES
    file,           \* the text of ./data/labels.jsonl
    dataset,        \* the content of ./data/conversations.json
    keys,           \* the keys present in st.session_state
    current_index,  \* st.session_state.current_index
    conversations,  \* st.session_state.conversations
    labels,         \* st.session_state.labels
    next_item,      \* st.session_state.next_item
    pc,             \* "rerun": a script run is due; "button": the run is at
                    \* the button row; "idle": the run is over
    clicked,        \* the button whose click caused the run under way
    view,           \* what the last script run rendered in the main area
    error           \* the exception the last handler or run ended with

vars == <<file, dataset, keys, current_index, conversations, labels,
          next_item, pc, clicked, view, error>>

session == <<keys, current_index, conversations, labels, next_item>>

AllKeys == {"current_index", "conversations", "labels", "next_item"}

N == Len(conversations)

\* The conversation the cursor is on (Python indexes from 0).
Current == conversations[current_index + 1]

Init ==
    /\ file \in InitFiles
    /\ dataset \in {Dataset(n) : n \in 0..MaxItems}
    /\ keys = {}
    /\ current_index = 0
    /\ conversations = <<>>
    /\ labels = EmptyDict
    /\ next_item = FALSE
    /\ pc = "rerun"
    /\ clicked = "none"
    /\ view = "none"
    /\ error = "none"

\* ------------------------------------------------------------- save_label
\* What the append of one record leaves in the file: the whole line, or, when
\* open or write raises, nothing or a prefix of the line.
WriteOutcomes == {"ok", "nothing", "torn", "no_newline"}

Written(rec, outcome) ==
    CASE outcome = "ok" -> <<rec, NL>>
      [] outcome = "nothing" -> <<>>
      [] outcome = "torn" -> <<Torn>>
      [] outcome = "no_newline" -> <<rec>>

\* The pieces of text in the log that are not a whole line of their own: what
\* is not JSON, and JSON that no newline follows.
Damage(text) ==
    Cardinality({i \in 1..Len(text) :
        \/ text[i].kind = "torn"
        \/ /\ text[i].kind = "json"
           /\ (i = Len(text) \/ text[i + 1].kind # "nl")})

\* The outcomes considered for the next write.
Outcomes ==
    IF Damage(file) < MaxDamage THEN WriteOutcomes ELSE {"ok", "nothing"}

\* save_label that updates the session before it writes.
SaveLabelStateFirst(conversation, label_value, outcome) ==
    /\ file' = file \o Written(Json(conversation.query_id, label_value), outcome)
    /\ labels' = Put(labels, conversation.query_id, label_value)
    /\ next_item' = TRUE
    /\ error' = IF outcome = "ok" THEN "none" ELSE "OSError"

\* save_label that does not write a record the session already holds.
SaveLabelDedup(conversation, label_value, outcome) ==
    /\ file' = IF /\ conversation.query_id \in DOMAIN labels
                  /\ labels[conversation.query_id] = label_value
               THEN file
               ELSE file \o Written(Json(conversation.query_id, label_value), outcome)
    /\ IF outcome = "ok"
       THEN /\ labels' = Put(labels, conversation.query_id, label_value)
            /\ next_item' = TRUE
            /\ error' = "none"
       ELSE /\ UNCHANGED <<labels, next_item>>
            /\ error' = "OSError"

save_label(conversation, label_value, outcome) ==
    /\ file' = file \o Written(Json(conversation.query_id, label_value), outcome)
    /\ IF outcome = "ok"
       THEN /\ labels' = Put(labels, conversation.query_id, label_value)
            /\ next_item' = TRUE
            /\ error' = "none"
       ELSE /\ UNCHANGED <<labels, next_item>>
            /\ error' = "OSError"

\* label_artifact() and label_no_artifact().
label_artifact(outcome) ==
    IF current_index < N
    THEN save_label(Current, "artifact", outcome)
    ELSE UNCHANGED <<file, labels, next_item>> /\ error' = "none"

label_no_artifact(outcome) ==
    IF current_index < N
    THEN save_label(Current, "not_artifact", outcome)
    ELSE UNCHANGED <<file, labels, next_item>> /\ error' = "none"

LabelFn(button, outcome) ==
    IF button = "artifact" THEN label_artifact(outcome)
    ELSE label_no_artifact(outcome)

\* ------------------------------------------------------------ the handlers
\* A click on a label button (or its shortcut): the on_click callback runs
\* before the script reruns; an exception in it ends the run.
ClickCallback ==
    /\ pc = "idle"
    /\ view = "item"
    /\ Len(file) + 4 <= MaxFileLen
    /\ \E button \in LabelValues, outcome \in Outcomes :
        /\ LabelFn(button, outcome)
        /\ IF outcome = "ok"
           THEN pc' = "rerun" /\ clicked' = button
           ELSE pc' = "idle" /\ clicked' = "none"
    /\ UNCHANGED <<dataset, keys, current_index, conversations, view>>

PrevIndex(i) == IF i > 0 THEN i - 1 ELSE i

\* next_item that tests against the length, not the last index.
NextIndexOffByOne(i, n) == IF i < n THEN i + 1 ELSE i

NextIndex(i, n) == IF i < n - 1 THEN i + 1 ELSE i

PrevItem ==
    /\ pc = "idle"
    /\ "current_index" \in keys
    /\ current_index' = PrevIndex(current_index)
    /\ pc' = "rerun"
    /\ clicked' = "none"
    /\ error' = "none"
    /\ UNCHANGED <<file, dataset, keys, conversations, labels, next_item, view>>

NextItem ==
    /\ pc = "idle"
    /\ {"current_index", "conversations"} \subseteq keys
    /\ current_index' = NextIndex(current_index, N)
    /\ pc' = "rerun"
    /\ clicked' = "none"
    /\ error' = "none"
    /\ UNCHANGED <<file, dataset, keys, conversations, labels, next_item, view>>

\* -------------------------------------------------------------- the script
\* The main display's branch for a cursor i over n conversations.
Render(i, n) ==
    IF n > 0 THEN (IF i < n THEN "item" ELSE "exhausted") ELSE "nodata"

\* The index a new session starts from.
InitialIndex == 0

\* One run of the script down to the button row: the initialisation of a new
\* session, the deferred advance, the sidebar and the main display.
ScriptRun ==
    /\ pc = "rerun"
    /\ UNCHANGED <<file, dataset>>
    /\ IF "current_index" \notin keys
       THEN LET loaded == load_labels(file)
            IN  /\ current_index' = InitialIndex
                /\ conversations' = dataset
                /\ IF loaded.ok
                   THEN /\ keys' = AllKeys
                        /\ labels' = loaded.labels
                        /\ next_item' = FALSE
                        /\ error' = "none"
                        /\ view' = Render(InitialIndex, Len(dataset))
                   ELSE /\ keys' = {"current_index", "conversations"}
                        /\ UNCHANGED <<labels, next_item>>
                        /\ error' = "JSONDecodeError"
                        /\ view' = "none"
       ELSE IF "next_item" \notin keys
       THEN /\ UNCHANGED session
            /\ error' = "AttributeError"
            /\ view' = "none"
       ELSE /\ current_index' =
                 IF next_item THEN NextIndex(current_index, N) ELSE current_index
            /\ next_item' = FALSE
            /\ UNCHANGED <<keys, conversations, labels>>
            /\ error' = "none"
            /\ view' = Render(current_index', N)
    /\ IF clicked # "none" /\ view' = "item"
       THEN pc' = "button" /\ UNCHANGED clicked
       ELSE pc' = "idle" /\ clicked' = "none"

\* The button row of a run a click caused: the button call returns true and
\* the script calls the label function itself.
InScriptLabel ==
    /\ pc = "button"
    /\ \E outcome \in Outcomes : LabelFn(clicked, outcome)
    /\ pc' = "idle"
    /\ clicked' = "none"
    /\ UNCHANGED <<dataset, keys, current_index, conversations, view>>

\* The session ends (the page is closed, the process stops) and a new one
\* starts: the session state is gone, the files stay.
Restart ==
    /\ keys # {}
    /\ keys' = {}
    /\ current_index' = 0
    /\ conversations' = <<>>
    /\ labels' = EmptyDict
    /\ next_item' = FALSE
    /\ pc' = "rerun"
    /\ clicked' = "none"
    /\ view' = "none"
    /\ error' = "none"
    /\ UNCHANGED <<file, dataset>>

Next ==
    \/ ScriptRun
    \/ ClickCallback
    \/ InScriptLabel
    \/ PrevItem
    \/ NextItem
    \/ Restart

Spec == Init /\ [][Next]_vars

\* The sidebar's numbers (app.py lines 105-107) for the session as it is.
Progress ==
    [total |-> N,
     labeled |-> Cardinality(DOMAIN labels),
     remaining |-> N - Cardinality(DOMAIN labels)]

\* ------------------------------------------------------ terms of the claims
\* The items load_labels reads from a text, in order: one per line that is
\* neither blank nor malformed.
RECURSIVE ItemsOf(_)
ItemsOf(lines) ==
    IF lines = <<>> THEN <<>>
    ELSE IF WellFormed(Head(lines))
         THEN <<Strip(Head(lines))[1]>> \o ItemsOf(Tail(lines))
         ELSE ItemsOf(Tail(lines))

Records(text) == ItemsOf(SplitLines(text, <<>>))

\* A line load_labels can neither skip nor parse.
Malformed(line) == Strip(line) # <<>> /\ ~WellFormed(line)

\* The text with its malformed lines removed.
RECURSIVE JoinLines(_)
JoinLines(lines) ==
    IF lines = <<>> THEN <<>>
    ELSE IF Malformed(Head(lines)) THEN JoinLines(Tail(lines))
         ELSE Head(lines) \o <<NL>> \o JoinLines(Tail(lines))

DropMalformed(text) == JoinLines(SplitLines(text, <<>>))

HasMalformed(text) ==
    \E i \in 1..Len(SplitLines(text, <<>>)) : Malformed(SplitLines(text, <<>>)[i])

\* The session holds what a replay of the log yields.
InSync == load_labels(file).ok /\ load_labels(file).labels = labels

\* The line of the record (id, l), as save_label writes it.
Line(id, l) == <<Json(id, l), NL>>

\* The text ends with the whole line of the record (id, l).
EndsWith(text, id, l) ==
    /\ Len(text) >= 2
    /\ SubSeq(text, Len(text) - 1, Len(text)) = Line(id, l)

\* A step in which a label function ran for the button l on an item.
CommitCall(l) ==
    /\ current_index < N
    /\ \/ ClickCallback /\ (clicked' = l \/ (clicked' = "none" /\ error' = "OSError"))
       \/ InScriptLabel /\ clicked = l

\* A label function's call for the button l that returned normally.
CommitDone(l) ==
    /\ current_index < N
    /\ error' = "none"
    /\ \/ ClickCallback /\ clicked' = l
       \/ InScriptLabel /\ clicked = l

\* The dataset's positions whose item has a label in the session.
Resolved == {i \in 1..N : conversations[i].query_id \in DOMAIN labels}

\* ------------------------------------------------------------------ claims

\* C1: starting from a session that load_labels initialised, every label
\* commit that succeeds leaves the session's label mapping equal to the
\* mapping a replay of the whole log yields: a restart between commits
\* reconstructs the same state.
C1_ReplayEqualsSession ==
    [][\A l \in LabelValues :
          (keys = AllKeys /\ InSync /\ CommitDone(l)) => InSync']_vars

\* C2: last write wins.  In a log that load_labels reads, with two records of
\* one query_id at positions i < j and none later, the label reconstructed for
\* the id is record j's; and a commit on an item sets the session's label for
\* it to the committed label, whatever it was.
C2_ReplayLastWins ==
    LET r == load_labels(file)
        recs == Records(file)
    IN  r.ok =>
          \A i, j \in 1..Len(recs) :
             ( /\ i < j
               /\ recs[i].query_id = recs[j].query_id
               /\ \A k \in (j + 1)..Len(recs) : recs[k].query_id # recs[j].query_id )
             => /\ recs[j].query_id \in DOMAIN r.labels
                /\ r.labels[recs[j].query_id] = recs[j].label

C2_CommitLastWins ==
    \A l \in LabelValues :
       CommitDone(l) =>
          /\ Current.query_id \in DOMAIN labels'
          /\ labels'[Current.query_id] = l

\* C2: last write wins, in the replay of every log load_labels reads and in
\* the session after every commit.
C2_LastWriteWins == []C2_ReplayLastWins /\ [][C2_CommitLastWins]_vars

\* C2's case: the log holds two records of one item with different labels, the
\* later one committed in this session, and the session holds the later label.
C2_Witness ==
    /\ keys = AllKeys
    /\ load_labels(file).ok
    /\ \E i, j \in 1..Len(Records(file)) :
          LET recs == Records(file)
          IN  /\ i < j
              /\ j = Len(recs)
              /\ recs[i].query_id = recs[j].query_id
              /\ recs[i].label # recs[j].label
              /\ recs[j].query_id \in DOMAIN labels
              /\ labels[recs[j].query_id] = recs[j].label
              /\ load_labels(file).labels[recs[j].query_id] = recs[j].label
              /\ next_item

\* C3: the sidebar's labeled count plus its remaining count is the dataset
\* size, labeled is the number of dataset items that have a label, remaining
\* the number that have none, and neither is negative, also when the log
\* holds records of ids the dataset does not have.
C3_ProgressCounts ==
    (keys = AllKeys /\ N >= 1) =>
       /\ Progress.labeled + Progress.remaining = Progress.total
       /\ Progress.total = N
       /\ Progress.labeled = Cardinality(Resolved)
       /\ Progress.remaining = N - Cardinality(Resolved)
       /\ 0 <= Progress.labeled
       /\ Progress.labeled <= Progress.total
       /\ Progress.remaining >= 0

\* C4: when the append inside save_label fails, the label mapping, the cursor
\* and the pending-advance flag are as they were before the call, and the
\* failure reaches the caller (a callback's failure ends the run).
C4_FailedStep ==
    \A l \in LabelValues :
       ( /\ CommitCall(l)
         /\ file' # file \o Line(Current.query_id, l) )
       => /\ labels' = labels
          /\ current_index' = current_index
          /\ next_item' = next_item
          /\ error' = "OSError"
          /\ pc' = "idle"

\* C4: a failed append leaves the label mapping, the cursor and the
\* pending-advance flag untouched and reaches the caller, at every step.
C4_CommitAtomicity == [][C4_FailedStep]_vars

\* C4's case: a label function's call has just failed in a live session that
\* holds labels.
C4_Witness ==
    /\ keys = AllKeys
    /\ error = "OSError"
    /\ pc = "idle"
    /\ DOMAIN labels # {}
    /\ Damage(file) > 0

\* C5: over a dataset of at least one item the cursor stays within 0..N-1
\* under next_item, prev_item, the commits and the deferred advance; next_item
\* on the last index and prev_item on index 0 change nothing and raise nothing.
C5_InBounds ==
    ("conversations" \in keys /\ N >= 1) =>
       (0 <= current_index /\ current_index <= N - 1)

C5_BoundaryNoOp ==
    /\ (NextItem /\ N >= 1 /\ current_index = N - 1)
          => (current_index' = current_index /\ error' = "none")
    /\ (PrevItem /\ N >= 1 /\ current_index = 0)
          => (current_index' = current_index /\ error' = "none")

\* C5: the cursor is within 0..N-1 in every state, and next_item and
\* prev_item at the ends are no-ops, at every step.
C5_NavigatorBounds == []C5_InBounds /\ [][C5_BoundaryNoOp]_vars

\* C5's case: a navigation handler has just run in a session over more than
\* one item, and the cursor is on the last index.
C5_Witness ==
    /\ keys = AllKeys
    /\ N >= 2
    /\ pc = "rerun"
    /\ clicked = "none"
    /\ current_index = N - 1
    /\ next_item

\* C6: a session start over a log that holds a malformed line skips the line
\* without failing, and the label mapping is that of the log without it.
C6_StartStep ==
    (ScriptRun /\ keys = {} /\ HasMalformed(file)) =>
       /\ error' = "none"
       /\ "labels" \in keys'
       /\ labels' = load_labels(DropMalformed(file)).labels

\* C6: every session start skips the malformed lines of the log without
\* failing.
C6_MalformedLineSkipped == [][C6_StartStep]_vars

\* C7: a commit of an item with the label its last commit gave it, that
\* commit's record being the last of the log, appends a second record and
\* leaves the label mapping, and so the number of labeled items, as it was.
C7_RetryStep ==
    \A l \in LabelValues :
       ( /\ CommitDone(l)
         /\ keys = AllKeys
         /\ EndsWith(file, Current.query_id, l)
         /\ Current.query_id \in DOMAIN labels
         /\ labels[Current.query_id] = l )
       => /\ file' = file \o Line(Current.query_id, l)
          /\ labels' = labels
          /\ Cardinality(DOMAIN labels') = Cardinality(DOMAIN labels)

\* C7: every repeated commit of an item with the same label appends a record
\* and leaves the label mapping as it was.
C7_IdempotentRetry == [][C7_RetryStep]_vars

\* C7's case: the log ends with two records of one item and one label, and
\* the session holds that label for the item.
C7_Witness ==
    /\ keys = AllKeys
    /\ Len(file) >= 4
    /\ \E i \in 1..N, l \in LabelValues :
          /\ SubSeq(file, Len(file) - 3, Len(file))
                = Line(conversations[i].query_id, l) \o Line(conversations[i].query_id, l)
          /\ conversations[i].query_id \in DOMAIN labels
          /\ labels[conversations[i].query_id] = l
          /\ next_item

\* C8: over a non-empty dataset, the script run that follows a commit on the
\* last item, where the advance would leave the sequence, reports the
\* exhausted status and does not present an item again.
C8_RunAfterLastCommit ==
    ( /\ ScriptRun
      /\ keys = AllKeys
      /\ N >= 1
      /\ next_item
      /\ current_index = N - 1
      /\ \E l \in LabelValues : EndsWith(file, Current.query_id, l) )
    => view' = "exhausted"

\* C8: every script run that follows a commit on the last item reports the
\* exhausted status.
C8_ExhaustionReported == [][C8_RunAfterLastCommit]_vars

\* C9: a session start puts the cursor on the first item, in dataset order,
\* that has no label in the replayed log.
C9_StartStep ==
    ( /\ ScriptRun
      /\ keys = {}
      /\ keys' = AllKeys
      /\ \E i \in 1..Len(conversations') :
            conversations'[i].query_id \notin DOMAIN labels' )
    => /\ conversations'[current_index' + 1].query_id \notin DOMAIN labels'
       /\ \A i \in 1..current_index' :
             conversations'[i].query_id \in DOMAIN labels'

\* C9: every session start puts the cursor on the first unlabeled item.
C9_StartsAtFirstUnlabeled == [][C9_StartStep]_vars

\* C10: one label action, the callback and the run it causes, appends exactly
\* one record, of the item presented when the button was pressed, and changes
\* no other item's label: the callback appends that record, and the run that
\* follows appends nothing and changes no label.
C10_ActionStep ==
    /\ \A l \in LabelValues :
          (ClickCallback /\ clicked' = l) =>
             /\ file' = file \o Line(Current.query_id, l)
             /\ \A id \in DOMAIN labels' \ {Current.query_id} :
                   id \in DOMAIN labels /\ labels'[id] = labels[id]
    /\ ((ScriptRun \/ InScriptLabel) /\ clicked # "none" /\ error' = "none") =>
          (file' = file /\ labels' = labels)

\* C10: every label action appends exactly one record, of the presented
\* item, and changes no other label.
C10_OneRecordPerAction == [][C10_ActionStep]_vars

====
